---- MODULE Spec2Model ----
(***************************************************************************)
(* Model of the client-side image cache (src/unnamed/part_003, imported by *)
(* the application as "@/lib/image-cache"): class ImageCacheManager over    *)
(* one IndexedDB object store, its singleton imageCache and the startup    *)
(* sweep.                                                                  *)
(*                                                                         *)
(* Granularity.  JavaScript runs one task at a time, and a call only       *)
(* gives way at an await on real I/O: the open request, a store request,   *)
(* the network fetch, the FileReader.  One action of the model is        *)
(* therefore one task: the delivery of one I/O completion together with    *)
(* everything the code runs from it (micro-tasks included) up to the next  *)
(* I/O request it issues.                                                  *)
(*                                                                         *)
(* IndexedDB.  Every transaction of the code has the single object store   *)
(* 'images' in scope and carries one request (the sweep: one cursor).      *)
(* IndexedDB runs transactions with overlapping scopes, one of them        *)
(* read-write, in the order of their creation, so the requests take        *)
(* effect in the order they were issued: idbQueue is that order, and       *)
(* IdbStep executes its head and delivers its callback.                    *)
(*                                                                         *)
(* Time.  Date.now() is the variable now, in milliseconds.  A session      *)
(* starts at now = CACHE_EXPIRY with records stored at 0 and at 1 by        *)
(* earlier sessions, and Tick advances now by one millisecond, so that     *)
(* records of age 0, 1, CACHE_EXPIRY - 1, CACHE_EXPIRY and more are read.   *)
(***************************************************************************)
EXTENDS Integers, Sequences, FiniteSets, TLC

\* const CACHE_EXPIRY = 7 * 24 * 60 * 60 * 1000; // 7 days
CACHE_EXPIRY == 7 * 24 * 60 * 60 * 1000

\* Bounds of the model.
MaxCalls == 3
MaxTicks == 1
MaxUploads == 3

\* Locators are <<scheme prefix, rest>>; startsWith tests the prefix.
\* KeyA is the remote image this session asks for; KeyB is a remote image an
\* earlier session cached, which this session does not ask for.
KeyA == <<"https:", "a">>
KeyB == <<"https:", "b">>
RemoteKeys == {KeyA}
StoredKeys == {KeyA, KeyB}
LocalLocators == {<<"blob:", "x">>, <<"data:", "y">>}
Locators == StoredKeys \cup LocalLocators

startsWith(url, prefix) == url[1] = prefix

NoUrl == <<"none", "none">>
NoEntry == [kind |-> "undefined"]
NoBlob == <<"no blob">>
NoResult == [kind |-> "pending"]
NULL == 0

\* The content the network serves for a locator today, and the content an
\* earlier session stored for it.
RemoteBlob(url) == <<url, "v2">>
OldBlob(url) == <<url, "v1">>

\* interface CachedImage { url; blob; timestamp; messageId? }
CachedImage(url, blob, timestamp, messageId) ==
  [kind |-> "CachedImage", url |-> url, blob |-> blob,
   timestamp |-> timestamp, messageId |-> messageId]

\* blob.type: response.blob() takes it from the Content-Type of the response
\* (lines 63, 194).  The earlier session was served a PNG, this one a WebP.
ContentType(blob) == IF blob[Len(blob)] = "v1" THEN "image/png" ELSE "image/webp"

\* The base64 encoding of the bytes of a blob.
base64(blob) == <<"base64", blob>>

\* The values a call settles with.  readAsDataURL(blob) gives
\* 'data:' + blob.type + ';base64,' + the encoded bytes (lines 213-221).
ObjectURL(blob) == [kind |-> "blob:", val |-> blob]
DataURI(blob) == [kind |-> "data:", val |-> <<ContentType(blob), base64(blob)>>]
Number(n) == [kind |-> "number", val |-> n]
Original(url) == [kind |-> "url", val |-> url]
Rejected(err) == [kind |-> "rejected", val |-> err]
Void == [kind |-> "void", val |-> "undefined"]

VARIABLES
  store,          \* the object store 'images': locator -> CachedImage or NoEntry
  idbQueue,       \* store requests issued and not yet executed, oldest first
  db,             \* ImageCacheManager.db: NULL or the connection of an open
  isInitialized,  \* ImageCacheManager.isInitialized
  openCount,      \* number of indexedDB.open requests issued so far
  calls,          \* the calls of the manager's methods, by order of start
  now,            \* Date.now()
  ticks,          \* number of Tick steps taken (bounded by MaxTicks)
  hook,           \* one mounted useCachedImage: its url argument and its state
  upload          \* the uploadImageWithRetry calls of the upload route

vars == <<store, idbQueue, db, isInitialized, openCount, calls, now, ticks, hook, upload>>

CallIds == 1..MaxCalls

IdleCall ==
  [op |-> "none", url |-> NoUrl, pc |-> "idle", blob |-> NoBlob, stamp |-> 0,
   result |-> NoResult, nOpen |-> 0, nFetch |-> 0, nPut |-> 0, faults |-> {},
   seen |-> NoEntry, seenAt |-> 0, doneBefore |-> {},
   swept |-> <<>>]

\* The calls that have settled.
Settled == {m \in CallIds : calls[m].pc = "done"}

\* Calls start in the order of their ids.
NextCall(c) == calls[c].pc = "idle" /\ \A m \in CallIds : m < c => calls[m].pc # "idle"

NewCall(op, url) ==
  [IdleCall EXCEPT !.op = op, !.url = url, !.doneBefore = Settled]

\* Date.now() - result.timestamp < CACHE_EXPIRY        (lines 100 and 242)
IsFreshLax(entry, t) == t - entry.timestamp <= CACHE_EXPIRY
IsFresh(entry, t) == t - entry.timestamp < CACHE_EXPIRY

\* IDBKeyRange.upperBound(cutoff): the closed range of keys <= cutoff (line 142)
upperBoundOpen(timestamp, cutoff) == timestamp < cutoff
lowerBound(timestamp, cutoff) == timestamp >= cutoff
upperBound(timestamp, cutoff) == timestamp <= cutoff

\* The cursor without cursor.continue(): only the first record of the range,
\* the one with the lowest timestamp, is deleted.
SweptFirstOnly(st, cutoff) ==
  LET inRange == {k \in Locators : st[k] # NoEntry /\ upperBound(st[k].timestamp, cutoff)}
  IN  IF inRange = {}
        THEN st
        ELSE LET first == CHOOSE k \in inRange :
                            \A m \in inRange : st[k].timestamp <= st[m].timestamp
             IN  [st EXCEPT ![first] = NoEntry]

\* The store after the cursor of clearExpiredCache has deleted every record
\* of the 'timestamp' index within upperBound(cutoff)     (lines 142-149)
Swept(st, cutoff) ==
  [k \in Locators |->
     IF st[k] # NoEntry /\ upperBound(st[k].timestamp, cutoff) THEN NoEntry ELSE st[k]]

GetReq(c, url) == [kind |-> "get", call |-> c, url |-> url, rec |-> NoEntry, cutoff |-> 0]
PutReq(c, rec) == [kind |-> "put", call |-> c, url |-> rec.url, rec |-> rec, cutoff |-> 0]
DeleteReq(c, url) == [kind |-> "delete", call |-> c, url |-> url, rec |-> NoEntry, cutoff |-> 0]
CursorReq(c, cutoff) == [kind |-> "cursor", call |-> c, url |-> NoUrl, rec |-> NoEntry, cutoff |-> cutoff]
CountReq(c) == [kind |-> "count", call |-> c, url |-> NoUrl, rec |-> NoEntry, cutoff |-> 0]

\* A call settles: `return`, or the catch block of its method.
Settle(cs, c, value, q) ==
  /\ calls' = [cs EXCEPT ![c].pc = "done", ![c].result = value]
  /\ idbQueue' = q

\* Catch with the two policies mixed up: every method rethrows, or every
\* method returns the original URL.
CatchRethrow(cs, c, fault, q) ==
  Settle([cs EXCEPT ![c].faults = @ \cup {fault}], c, Rejected(fault), q)
CatchSwallow(cs, c, fault, q) ==
  Settle([cs EXCEPT ![c].faults = @ \cup {fault}], c, Original(cs[c].url), q)

\* catch (error): cacheImage returns the original URL (lines 80-83),
\* urlToBase64 rethrows (lines 222-225).
Catch(cs, c, fault, q) ==
  LET cf == [cs EXCEPT ![c].faults = @ \cup {fault}] IN
  IF cs[c].op = "cacheImage"
    THEN Settle(cf, c, Original(cs[c].url), q)
    ELSE Settle(cf, c, Rejected(fault), q)

\* catch (error) of the methods that only log: removeCachedImage and
\* clearExpiredCache return (lines 127-129, 150-152), getCacheSize returns 0
\* (lines 168-171).
CatchQuiet(cs, c, fault, q) ==
  Settle([cs EXCEPT ![c].faults = @ \cup {fault}], c,
         IF cs[c].op = "getCacheSize" THEN Number(0) ELSE Void, q)

\* const response = await fetch(url)                        (lines 60, 191)
IssueFetch(cs, c, q) ==
  /\ calls' = [cs EXCEPT ![c].pc = "fetch", ![c].nFetch = @ + 1]
  /\ idbQueue' = q

\* getCachedImage / getCachedImageBlob up to store.get(url): init() returns
\* at once (isInitialized), the transaction is created (a throw is caught and
\* the lookup returns null: lines 113-116, 255-258) and the get is issued.
Lookup(cs, c, throws) ==
  IF throws
    THEN IssueFetch([cs EXCEPT ![c].faults = @ \cup {"read"}], c, idbQueue)
    ELSE /\ calls' = [cs EXCEPT ![c].pc = "get"]
         /\ idbQueue' = Append(idbQueue, GetReq(c, cs[c].url))

\* What a method runs once its own `await this.init()` has returned, up to
\* its first request.
AfterInit(cs, c, throws) ==
  CASE cs[c].op \in {"cacheImage", "urlToBase64"} -> Lookup(cs, c, throws)
    [] cs[c].op = "removeCachedImage" ->
         IF throws
           THEN Settle([cs EXCEPT ![c].faults = @ \cup {"tx"}], c, Void, idbQueue)
           ELSE Settle(cs, c, Void, Append(idbQueue, DeleteReq(c, cs[c].url)))
    [] cs[c].op = "clearExpiredCache" ->
         IF throws
           THEN Settle([cs EXCEPT ![c].faults = @ \cup {"tx"}], c, Void, idbQueue)
           ELSE Settle([cs EXCEPT ![c].stamp = now], c, Void,
                       Append(idbQueue, CursorReq(c, now - CACHE_EXPIRY)))
    [] cs[c].op = "getCacheSize" ->
         IF throws
           THEN CatchQuiet(cs, c, "tx", idbQueue)
           ELSE /\ calls' = [cs EXCEPT ![c].pc = "count"]
                /\ idbQueue' = Append(idbQueue, CountReq(c))

\* init() without the isInitialized test: every call opens the database.
initAlwaysOpens(cs, c) ==
  /\ calls' = [cs EXCEPT ![c].pc = "open", ![c].nOpen = @ + 1]
  /\ openCount' = openCount + 1
  /\ UNCHANGED idbQueue

\* init(): return when isInitialized, else issue indexedDB.open (lines 24-28).
init(cs, c) ==
  IF isInitialized
    THEN /\ \E throws \in BOOLEAN : AfterInit(cs, c, throws)
         /\ UNCHANGED openCount
    ELSE /\ calls' = [cs EXCEPT ![c].pc = "open", ![c].nOpen = @ + 1]
         /\ openCount' = openCount + 1
         /\ UNCHANGED idbQueue

Begin(c, op, url) ==
  /\ NextCall(c)
  /\ init([calls EXCEPT ![c] = NewCall(op, url)], c)
  /\ UNCHANGED <<store, db, isInitialized, now, ticks, upload>>

\* The methods called on the exported singleton, from outside the hook.
cacheImage(c, url) == Begin(c, "cacheImage", url) /\ UNCHANGED hook
urlToBase64(c, url) == Begin(c, "urlToBase64", url) /\ UNCHANGED hook
removeCachedImage(c, url) == Begin(c, "removeCachedImage", url) /\ UNCHANGED hook
clearExpiredCache(c) == Begin(c, "clearExpiredCache", NoUrl) /\ UNCHANGED hook
getCacheSize(c) == Begin(c, "getCacheSize", NoUrl) /\ UNCHANGED hook

\* request.onsuccess of indexedDB.open                      (lines 31-35)
OpenSuccess(c) ==
  /\ calls[c].pc = "open"
  /\ db' = c
  /\ isInitialized' = TRUE
  /\ \E throws \in BOOLEAN : AfterInit(calls, c, throws)
  /\ UNCHANGED <<store, openCount, now, ticks, hook, upload>>

\* OpenError with the failed attempt remembered: isInitialized is set although
\* there is no connection.
OpenErrorMemoized(c) ==
  /\ calls[c].pc = "open"
  /\ isInitialized' = TRUE
  /\ IF calls[c].op \in {"cacheImage", "urlToBase64"}
       THEN Catch(calls, c, "open", idbQueue)
       ELSE CatchQuiet(calls, c, "open", idbQueue)
  /\ UNCHANGED <<store, db, openCount, now, ticks, hook, upload>>

\* OpenError with the failure of the open ignored: the call goes on to fetch.
OpenErrorProceeds(c) ==
  /\ calls[c].pc = "open"
  /\ IssueFetch([calls EXCEPT ![c].faults = @ \cup {"open"}], c, idbQueue)
  /\ UNCHANGED <<store, db, isInitialized, openCount, now, ticks, hook, upload>>

\* request.onerror of indexedDB.open: init() rejects        (line 30)
OpenError(c) ==
  /\ calls[c].pc = "open"
  /\ IF calls[c].op \in {"cacheImage", "urlToBase64"}
       THEN Catch(calls, c, "open", idbQueue)
       ELSE CatchQuiet(calls, c, "open", idbQueue)
  /\ UNCHANGED <<store, db, isInitialized, openCount, now, ticks, hook, upload>>

\* Hit that renews the record it serves: the record is put back with
\* timestamp Date.now() (a sliding expiry).
HitRefresh(cs, c, entry, q) ==
  LET again == Append(q, PutReq(c, [entry EXCEPT !.timestamp = now])) IN
  IF cs[c].op = "cacheImage"
    THEN Settle(cs, c, ObjectURL(entry.blob), again)
    ELSE /\ calls' = [cs EXCEPT ![c].pc = "read", ![c].blob = entry.blob]
         /\ idbQueue' = again

\* Hit with getCachedImageBlob never valid: urlToBase64 always fetches.
HitImageOnly(cs, c, entry, q) ==
  IF cs[c].op = "cacheImage"
    THEN Settle(cs, c, ObjectURL(entry.blob), q)
    ELSE IssueFetch(cs, c, q)

\* A hit: getCachedImage resolves URL.createObjectURL(result.blob) and
\* cacheImage returns it (lines 101, 55-57); getCachedImageBlob resolves
\* result.blob and urlToBase64 reads it as a data URL (lines 243, 187-188, 220).
Hit(cs, c, entry, q) ==
  IF cs[c].op = "cacheImage"
    THEN Settle(cs, c, ObjectURL(entry.blob), q)
    ELSE /\ calls' = [cs EXCEPT ![c].pc = "read", ![c].blob = entry.blob]
         /\ idbQueue' = q

\* request.onsuccess of store.get(url)              (lines 96-110, 238-252):
\* a fresh record is a hit; an expired one starts removeCachedImage(url)
\* without awaiting it (its delete is issued in the same task, unless its
\* transaction throws) and counts as a miss; so does no record.
GetSuccess ==
  /\ idbQueue # <<>>
  /\ Head(idbQueue).kind = "get"
  /\ LET r == Head(idbQueue)
         c == r.call
         entry == store[r.url]
         q == Tail(idbQueue)
         cs == [calls EXCEPT ![c].seen = entry, ![c].seenAt = now]
     IN  IF entry # NoEntry
           THEN IF IsFresh(entry, now)
                  THEN Hit(cs, c, entry, q)
                  ELSE \E throws \in BOOLEAN :
                         IssueFetch(cs, c,
                                    IF throws THEN q
                                    ELSE Append(q, DeleteReq(c, r.url)))
           ELSE IssueFetch(cs, c, q)
  /\ UNCHANGED <<store, db, isInitialized, openCount, now, ticks, hook, upload>>

\* GetError without a handler: request.onerror is not set, the promise of
\* the lookup stays pending.
GetErrorPending ==
  /\ idbQueue # <<>>
  /\ Head(idbQueue).kind = "get"
  /\ calls' = [calls EXCEPT ![Head(idbQueue).call].faults = @ \cup {"read"}]
  /\ idbQueue' = Tail(idbQueue)
  /\ UNCHANGED <<store, db, isInitialized, openCount, now, ticks, hook, upload>>

\* GetError with the error of the get passed on: reject instead of
\* resolve(null).
GetErrorRejects ==
  /\ idbQueue # <<>>
  /\ Head(idbQueue).kind = "get"
  /\ Catch(calls, Head(idbQueue).call, "read", Tail(idbQueue))
  /\ UNCHANGED <<store, db, isInitialized, openCount, now, ticks, hook, upload>>

\* request.onerror of store.get(url): resolve(null)         (lines 111, 253)
GetError ==
  /\ idbQueue # <<>>
  /\ Head(idbQueue).kind = "get"
  /\ LET c == Head(idbQueue).call IN
       IssueFetch([calls EXCEPT ![c].faults = @ \cup {"read"}], c, Tail(idbQueue))
  /\ UNCHANGED <<store, db, isInitialized, openCount, now, ticks, hook, upload>>

\* FetchOk with the record keeping the timestamp of the expired record it
\* replaces.
FetchOkOldStamp(c) ==
  /\ calls[c].pc = "fetch"
  /\ LET url == calls[c].url
         blob == RemoteBlob(url)
         messageId == IF calls[c].op = "cacheImage" THEN "messageId" ELSE "undefined"
         t == IF calls[c].seen # NoEntry THEN calls[c].seen.timestamp ELSE now
         cs == [calls EXCEPT ![c].blob = blob, ![c].stamp = t]
     IN  /\ calls' = [cs EXCEPT ![c].pc = "put"]
         /\ idbQueue' = Append(idbQueue, PutReq(c, CachedImage(url, blob, t, messageId)))
  /\ UNCHANGED <<store, db, isInitialized, openCount, now, ticks, hook, upload>>

\* The fetch succeeds with an ok response: the record is built with
\* timestamp Date.now() and put (lines 63-77, 194-209); a throw of
\* db.transaction goes to the catch block.
FetchOk(c) ==
  /\ calls[c].pc = "fetch"
  /\ LET url == calls[c].url
         blob == RemoteBlob(url)
         messageId == IF calls[c].op = "cacheImage" THEN "messageId" ELSE "undefined"
         cs == [calls EXCEPT ![c].blob = blob, ![c].stamp = now]
     IN  \E throws \in BOOLEAN :
           IF throws
             THEN Catch(cs, c, "write", idbQueue)
             ELSE /\ calls' = [cs EXCEPT ![c].pc = "put"]
                  /\ idbQueue' = Append(idbQueue,
                                        PutReq(c, CachedImage(url, blob, now, messageId)))
  /\ UNCHANGED <<store, db, isInitialized, openCount, now, ticks, hook, upload>>

\* FetchFail falling back on the expired record the lookup read.
FetchFailServesStale(c) ==
  /\ calls[c].pc = "fetch"
  /\ IF calls[c].seen # NoEntry /\ calls[c].op = "cacheImage"
       THEN Settle([calls EXCEPT ![c].faults = @ \cup {"fetch"}], c,
                   ObjectURL(calls[c].seen.blob), idbQueue)
       ELSE Catch(calls, c, "fetch", idbQueue)
  /\ UNCHANGED <<store, db, isInitialized, openCount, now, ticks, hook, upload>>

\* fetch rejects, or !response.ok throws                    (lines 60-61, 191-192)
FetchFail(c) ==
  /\ calls[c].pc = "fetch"
  /\ Catch(calls, c, "fetch", idbQueue)
  /\ UNCHANGED <<store, db, isInitialized, openCount, now, ticks, hook, upload>>

\* PutSuccess with the record lost: the callback runs, the store is unchanged.
PutDropped ==
  /\ idbQueue # <<>>
  /\ Head(idbQueue).kind = "put"
  /\ LET c == Head(idbQueue).call
         cs == [calls EXCEPT ![c].nPut = @ + 1]
     IN  IF calls[c].op = "cacheImage"
           THEN Settle(cs, c, ObjectURL(calls[c].blob), Tail(idbQueue))
           ELSE /\ calls' = [cs EXCEPT ![c].pc = "read"]
                /\ idbQueue' = Tail(idbQueue)
  /\ UNCHANGED <<store, db, isInitialized, openCount, now, ticks, hook, upload>>

\* request.onsuccess of store.put: the record replaces any record of its key
\* (keyPath 'url'); cacheImage returns URL.createObjectURL(blob) (line 79),
\* urlToBase64 goes on to the FileReader (lines 213-221).
PutSuccess ==
  /\ idbQueue # <<>>
  /\ Head(idbQueue).kind = "put"
  /\ LET r == Head(idbQueue)
         c == r.call
         cs == [calls EXCEPT ![c].nPut = @ + 1]
     IN  /\ store' = [store EXCEPT ![r.url] = r.rec]
         /\ IF calls[c].op = "cacheImage"
              THEN Settle(cs, c, ObjectURL(calls[c].blob), Tail(idbQueue))
              ELSE /\ calls' = [cs EXCEPT ![c].pc = "read"]
                   /\ idbQueue' = Tail(idbQueue)
  /\ UNCHANGED <<db, isInitialized, openCount, now, ticks, hook, upload>>

\* request.onerror of store.put (quota exceeded, ...): reject(request.error)
\* is thrown at the await and caught                        (lines 76, 208)
PutError ==
  /\ idbQueue # <<>>
  /\ Head(idbQueue).kind = "put"
  /\ Catch(calls, Head(idbQueue).call, "write", Tail(idbQueue))
  /\ UNCHANGED <<store, db, isInitialized, openCount, now, ticks, hook, upload>>

\* DeleteDone with the delete lost.
DeleteSkipped ==
  /\ idbQueue # <<>>
  /\ Head(idbQueue).kind = "delete"
  /\ idbQueue' = Tail(idbQueue)
  /\ UNCHANGED <<store, db, isInitialized, openCount, calls, now, ticks, hook, upload>>

\* DeleteDone as store.clear(): every record goes.
DeleteClear ==
  /\ idbQueue # <<>>
  /\ Head(idbQueue).kind = "delete"
  /\ store' = [k \in Locators |-> NoEntry]
  /\ idbQueue' = Tail(idbQueue)
  /\ UNCHANGED <<db, isInitialized, openCount, calls, now, ticks, hook, upload>>

\* store.delete(url) of removeCachedImage takes effect; nothing awaits it
\* (line 126)
DeleteDone ==
  /\ idbQueue # <<>>
  /\ Head(idbQueue).kind = "delete"
  /\ store' = [store EXCEPT ![Head(idbQueue).url] = NoEntry]
  /\ idbQueue' = Tail(idbQueue)
  /\ UNCHANGED <<db, isInitialized, openCount, calls, now, ticks, hook, upload>>

\* The cursor of clearExpiredCache runs to its end inside its transaction
\* (lines 142-149); the call's record keeps what it found and left.
CursorDone ==
  /\ idbQueue # <<>>
  /\ Head(idbQueue).kind = "cursor"
  /\ LET r == Head(idbQueue) IN
       /\ store' = Swept(store, r.cutoff)
       /\ calls' = [calls EXCEPT ![r.call].swept =
                      <<[before |-> store, after |-> Swept(store, r.cutoff),
                         cutoff |-> r.cutoff]>>]
  /\ idbQueue' = Tail(idbQueue)
  /\ UNCHANGED <<db, isInitialized, openCount, now, ticks, hook, upload>>

\* CountSuccess counting the valid records only.
CountFresh ==
  /\ idbQueue # <<>>
  /\ Head(idbQueue).kind = "count"
  /\ Settle(calls, Head(idbQueue).call,
            Number(Cardinality({k \in Locators :
                                  store[k] # NoEntry /\ IsFresh(store[k], now)})),
            Tail(idbQueue))
  /\ UNCHANGED <<store, db, isInitialized, openCount, now, ticks, hook, upload>>

\* request.onsuccess of store.count(): resolve(request.result), the number
\* of records in the store                                  (lines 164-165)
CountSuccess ==
  /\ idbQueue # <<>>
  /\ Head(idbQueue).kind = "count"
  /\ Settle(calls, Head(idbQueue).call,
            Number(Cardinality({k \in Locators : store[k] # NoEntry})),
            Tail(idbQueue))
  /\ UNCHANGED <<store, db, isInitialized, openCount, now, ticks, hook, upload>>

\* request.onerror of store.count(): resolve(0)             (line 166)
CountError ==
  /\ idbQueue # <<>>
  /\ Head(idbQueue).kind = "count"
  /\ Settle([calls EXCEPT ![Head(idbQueue).call].faults = @ \cup {"read"}],
            Head(idbQueue).call, Number(0), Tail(idbQueue))
  /\ UNCHANGED <<store, db, isInitialized, openCount, now, ticks, hook, upload>>

\* ReaderLoad resolving a local reference to the blob instead of its data URL.
ReaderLoadObjectURL(c) ==
  /\ calls[c].pc = "read"
  /\ Settle(calls, c, ObjectURL(calls[c].blob), idbQueue)
  /\ UNCHANGED <<store, db, isInitialized, openCount, now, ticks, hook, upload>>

\* reader.onload: resolve(reader.result)                    (lines 215-218)
ReaderLoad(c) ==
  /\ calls[c].pc = "read"
  /\ Settle(calls, c, DataURI(calls[c].blob), idbQueue)
  /\ UNCHANGED <<store, db, isInitialized, openCount, now, ticks, hook, upload>>

\* reader.onerror: reject(reader.error)                     (line 219)
ReaderError(c) ==
  /\ calls[c].pc = "read"
  /\ Settle([calls EXCEPT ![c].faults = @ \cup {"reader"}], c, Rejected("reader"), idbQueue)
  /\ UNCHANGED <<store, db, isInitialized, openCount, now, ticks, hook, upload>>

\* A millisecond passes.
Tick ==
  /\ ticks < MaxTicks
  /\ now' = now + 1
  /\ ticks' = ticks + 1
  /\ UNCHANGED <<store, idbQueue, db, isInitialized, openCount, calls, hook, upload>>

\* The store persists across sessions: a session starts with an empty store
\* or with records of earlier sessions.  At the start now = CACHE_EXPIRY, so
\* a record stored at 0 has just expired and a record stored at 1 is fresh
\* for one more millisecond.
OldImage(url, timestamp) == CachedImage(url, OldBlob(url), timestamp, "messageId")
EmptyStore == [k \in Locators |-> NoEntry]
InitStores ==
  { EmptyStore,
    [EmptyStore EXCEPT ![KeyA] = OldImage(KeyA, 0), ![KeyB] = OldImage(KeyB, 1)],
    [EmptyStore EXCEPT ![KeyA] = OldImage(KeyA, 1), ![KeyB] = OldImage(KeyB, 0)] }

\* useCachedImage mounted with url null: useState(null), useState(false), and
\* the effect has run setCachedUrl(null) (lines 267-274); then: the promise
\* chains of the cacheImage calls its effects have started.
NoCachedUrl == [kind |-> "null"]
HookMounted ==
  [url |-> NoUrl, cachedUrl |-> NoCachedUrl, isLoading |-> FALSE, then |-> {}]

\* The upload route (s3-service): s3Client is the module's memoized client,
\* env tells whether the required environment variables are set, and call
\* holds the uploadImageWithRetry calls of the POST requests: the loop
\* variable of withRetry, the number of client.send made, the result.
UploadIds == 1..MaxUploads
IdleUpload == [pc |-> "idle", attempt |-> 0, sends |-> 0, result |-> NoResult]
NoUpload == [s3Client |-> FALSE, env |-> TRUE, call |-> [u \in UploadIds |-> IdleUpload]]

\* The module is loaded in a browser: the singleton is constructed (db null,
\* isInitialized false) and the startup sweep imageCache.clearExpiredCache()
\* has run up to its indexedDB.open (lines 21-22, 263, 293-295).
Init ==
  /\ store \in InitStores
  /\ idbQueue = <<>>
  /\ db = NULL
  /\ isInitialized = FALSE
  /\ openCount = 1
  /\ now = CACHE_EXPIRY
  /\ ticks = 0
  /\ calls = [c \in CallIds |->
                IF c = 1
                  THEN [IdleCall EXCEPT !.op = "clearExpiredCache", !.pc = "open",
                                        !.nOpen = 1]
                  ELSE IdleCall]
  /\ hook = HookMounted
  /\ upload = NoUpload

Next ==
  \/ \E c \in CallIds, url \in RemoteKeys : cacheImage(c, url)
  \/ \E c \in CallIds, url \in RemoteKeys : urlToBase64(c, url)
  \/ \E c \in CallIds, url \in RemoteKeys : removeCachedImage(c, url)
  \/ \E c \in CallIds : clearExpiredCache(c)
  \/ \E c \in CallIds : OpenSuccess(c)
  \/ \E c \in CallIds : OpenError(c)
  \/ GetSuccess
  \/ GetError
  \/ \E c \in CallIds : FetchOk(c)
  \/ \E c \in CallIds : FetchFail(c)
  \/ PutSuccess
  \/ PutError
  \/ DeleteDone
  \/ CursorDone
  \/ \E c \in CallIds : ReaderLoad(c)
  \/ \E c \in CallIds : ReaderError(c)
  \/ Tick

Spec == Init /\ [][Next]_vars

\* cacheImage called directly (imageCache is exported) with locators that are
\* already local: object URLs and data URIs.
NextDirect ==
  \/ \E c \in CallIds, url \in LocalLocators : cacheImage(c, url)
  \/ \E c \in CallIds : OpenSuccess(c)
  \/ \E c \in CallIds : OpenError(c)
  \/ GetSuccess
  \/ GetError
  \/ \E c \in CallIds : FetchOk(c)
  \/ \E c \in CallIds : FetchFail(c)
  \/ PutSuccess
  \/ PutError
  \/ CursorDone
  \/ Tick

SpecDirect == Init /\ [][NextDirect]_vars

\* The diagnostic getCacheSize beside the calls that change the store.
NextSize ==
  \/ \E c \in CallIds, url \in RemoteKeys : cacheImage(c, url)
  \/ \E c \in CallIds, url \in RemoteKeys : removeCachedImage(c, url)
  \/ \E c \in CallIds : getCacheSize(c)
  \/ \E c \in CallIds : OpenSuccess(c)
  \/ \E c \in CallIds : OpenError(c)
  \/ GetSuccess
  \/ GetError
  \/ \E c \in CallIds : FetchOk(c)
  \/ \E c \in CallIds : FetchFail(c)
  \/ PutSuccess
  \/ PutError
  \/ DeleteDone
  \/ CursorDone
  \/ CountSuccess
  \/ CountError
  \/ Tick

SpecSize == Init /\ [][NextSize]_vars

\* The module loaded where there is no IndexedDB (server-side rendering):
\* `indexedDB` is not defined, so indexedDB.open throws a ReferenceError in
\* the executor of the promise of init(), which rejects (lines 27-28); the
\* method's catch block runs in the same turn.
initNoIndexedDB(cs, c) ==
  IF cs[c].op \in {"cacheImage", "urlToBase64"}
    THEN Catch(cs, c, "open", idbQueue)
    ELSE CatchQuiet(cs, c, "open", idbQueue)

BeginNoIndexedDB(c, op, url) ==
  /\ NextCall(c)
  /\ initNoIndexedDB([calls EXCEPT ![c] = NewCall(op, url)], c)
  /\ UNCHANGED <<store, db, isInitialized, openCount, now, ticks, hook, upload>>

\* typeof window === 'undefined': the singleton is constructed and no startup
\* sweep is made (lines 263, 293-295); there is no store.
InitServer ==
  /\ store = EmptyStore
  /\ idbQueue = <<>>
  /\ db = NULL
  /\ isInitialized = FALSE
  /\ openCount = 0
  /\ now = CACHE_EXPIRY
  /\ ticks = 0
  /\ calls = [c \in CallIds |-> IdleCall]
  /\ hook = HookMounted
  /\ upload = NoUpload

NextServer ==
  \/ \E c \in CallIds, url \in RemoteKeys : BeginNoIndexedDB(c, "cacheImage", url)
  \/ \E c \in CallIds, url \in RemoteKeys : BeginNoIndexedDB(c, "urlToBase64", url)
  \/ \E c \in CallIds, url \in RemoteKeys : BeginNoIndexedDB(c, "removeCachedImage", url)
  \/ \E c \in CallIds : BeginNoIndexedDB(c, "clearExpiredCache", NoUrl)
  \/ \E c \in CallIds : BeginNoIndexedDB(c, "getCacheSize", NoUrl)
  \/ Tick

SpecServer == InitServer /\ [][NextServer]_vars

(***************************************************************************)
(* The hook useCachedImage.                                                *)
(***************************************************************************)

\* The values of the url argument: null, remote locators, local locators.
HookUrls == {NoUrl} \cup StoredKeys \cup LocalLocators

\* A promise chain of the hook whose cacheImage call has settled: its
\* callbacks are microtasks, they run before any other task.
NoCallbackDue == \A c \in hook.then : calls[c].pc # "done"

\* The effect of useCachedImage after a render with a new url (lines
\* 270-287): null clears cachedUrl; an object URL or data URI is shown as it
\* is; otherwise isLoading is set and cacheImage(url) is called, with the
\* callbacks then/catch/finally attached.  Nothing is cancelled.
useCachedImage(url) ==
  /\ url # hook.url
  /\ NoCallbackDue
  /\ IF url = NoUrl
       THEN /\ hook' = [hook EXCEPT !.url = url, !.cachedUrl = NoCachedUrl]
            /\ UNCHANGED <<store, idbQueue, db, isInitialized, openCount, calls, now, ticks, upload>>
       ELSE IF startsWith(url, "blob:") \/ startsWith(url, "data:")
         THEN /\ hook' = [hook EXCEPT !.url = url, !.cachedUrl = Original(url)]
              /\ UNCHANGED <<store, idbQueue, db, isInitialized, openCount, calls, now, ticks, upload>>
         ELSE \E c \in CallIds :
                /\ Begin(c, "cacheImage", url)
                /\ hook' = [hook EXCEPT !.url = url, !.isLoading = TRUE,
                                        !.then = @ \cup {c}]

\* The callbacks of the chain of call c (lines 284-286): then(setCachedUrl)
\* with the value of the call, catch(() => setCachedUrl(url)) with the url of
\* the effect that made the call, finally(() => setIsLoading(false)).
thenSetCachedUrl(c) ==
  /\ c \in hook.then
  /\ calls[c].pc = "done"
  /\ hook' = [hook EXCEPT !.cachedUrl = IF calls[c].result.kind = "rejected"
                                          THEN Original(calls[c].url)
                                          ELSE calls[c].result,
                          !.isLoading = FALSE,
                          !.then = @ \ {c}]
  /\ UNCHANGED <<store, idbQueue, db, isInitialized, openCount, calls, now, ticks, upload>>

\* A component using the hook, in the browser session of Init: the url
\* argument changes between renders, the requests of the calls complete, all
\* within one millisecond.
NextHook ==
  \/ \E url \in HookUrls : useCachedImage(url)
  \/ \E c \in CallIds : thenSetCachedUrl(c)
  \/ NoCallbackDue /\ \E c \in CallIds : OpenSuccess(c)
  \/ NoCallbackDue /\ \E c \in CallIds : OpenError(c)
  \/ NoCallbackDue /\ GetSuccess
  \/ NoCallbackDue /\ GetError
  \/ NoCallbackDue /\ \E c \in CallIds : FetchOk(c)
  \/ NoCallbackDue /\ \E c \in CallIds : FetchFail(c)
  \/ NoCallbackDue /\ PutSuccess
  \/ NoCallbackDue /\ PutError
  \/ NoCallbackDue /\ DeleteDone
  \/ NoCallbackDue /\ CursorDone

SpecHook == Init /\ [][NextHook]_vars

\* The hook rendered with a remote url beside direct calls of urlToBase64
\* (a render with null or a local locator issues no request), with every request a call
\* issues eventually signalling success or error, and the callbacks of a
\* settled promise eventually run.
OpenSignals(c) == NoCallbackDue /\ (OpenSuccess(c) \/ OpenError(c))
FetchSignals(c) == NoCallbackDue /\ (FetchOk(c) \/ FetchFail(c))
ReaderSignals(c) == NoCallbackDue /\ (ReaderLoad(c) \/ ReaderError(c))
StoreSignals ==
  NoCallbackDue /\ (GetSuccess \/ GetError \/ PutSuccess \/ PutError
                      \/ DeleteDone \/ CursorDone)

NextLive ==
  \/ \E url \in RemoteKeys : useCachedImage(url)
  \/ \E c \in CallIds : thenSetCachedUrl(c)
  \/ NoCallbackDue /\ \E c \in CallIds, url \in RemoteKeys : urlToBase64(c, url)
  \/ \E c \in CallIds : OpenSignals(c)
  \/ \E c \in CallIds : FetchSignals(c)
  \/ \E c \in CallIds : ReaderSignals(c)
  \/ StoreSignals

Signals ==
  /\ \A c \in CallIds : WF_vars(OpenSignals(c))
  /\ \A c \in CallIds : WF_vars(FetchSignals(c))
  /\ \A c \in CallIds : WF_vars(ReaderSignals(c))
  /\ WF_vars(StoreSignals)
  /\ \A c \in CallIds : WF_vars(thenSetCachedUrl(c))

SpecLive == Init /\ [][NextLive]_vars /\ Signals

(***************************************************************************)
(* The upload route: uploadImageWithRetry (s3-service).                    *)
(***************************************************************************)

\* uploadImageWithRetry passes maxRetries = 3 to withRetry.
maxRetries == 3

\* interface UploadImageResult { success; imageUrl?; key?; error? }
UploadSuccess == [kind |-> "UploadImageResult", success |-> TRUE, error |-> "undefined"]
UploadFailure(err) == [kind |-> "UploadImageResult", success |-> FALSE, error |-> err]

\* How a call of the operation given to withRetry ends.
Returned(value) == [rejected |-> FALSE, value |-> value]
Thrown(err) == [rejected |-> TRUE, value |-> err]

\* catch (error) of uploadImage: the error becomes a returned result, the
\* promise of uploadImage is never rejected.
uploadImageCatch(err) == Returned(UploadFailure(err))

\* withRetry after `await operation()` of the current attempt: a returned
\* value is returned; a rejection is rethrown at the last attempt and is
\* otherwise followed by the backoff timer and another attempt.
withRetry(up, u, outcome) ==
  IF ~outcome.rejected
    THEN [up EXCEPT !.call[u].pc = "done", !.call[u].result = outcome.value]
    ELSE IF up.call[u].attempt = maxRetries
           THEN [up EXCEPT !.call[u].pc = "done",
                           !.call[u].result = Rejected(outcome.value)]
           ELSE [up EXCEPT !.call[u].pc = "backoff"]

\* An attempt of withRetry, the first or the one after a backoff timer:
\* operation() = uploadImage(...) runs getS3Client (validateS3Config throws
\* when a variable is missing and no client exists yet), builds the command
\* and awaits client.send.
uploadImageWithRetry(u) ==
  /\ upload.call[u].pc \in {"idle", "backoff"}
  /\ LET up == [upload EXCEPT !.call[u].attempt = @ + 1] IN
       IF ~upload.s3Client /\ ~upload.env
         THEN upload' = withRetry(up, u, uploadImageCatch("config"))
         ELSE upload' = [up EXCEPT !.s3Client = TRUE, !.call[u].pc = "send",
                                   !.call[u].sends = @ + 1]
  /\ UNCHANGED <<store, idbQueue, db, isInitialized, openCount, calls, now, ticks, hook>>

\* client.send resolves: generatePresignedUrl awaits getSignedUrl.
SendOk(u) ==
  /\ upload.call[u].pc = "send"
  /\ upload' = [upload EXCEPT !.call[u].pc = "presign"]
  /\ UNCHANGED <<store, idbQueue, db, isInitialized, openCount, calls, now, ticks, hook>>

\* client.send rejects: caught by uploadImage.
SendFail(u) ==
  /\ upload.call[u].pc = "send"
  /\ upload' = withRetry(upload, u, uploadImageCatch("send"))
  /\ UNCHANGED <<store, idbQueue, db, isInitialized, openCount, calls, now, ticks, hook>>

\* getSignedUrl resolves: uploadImage returns the successful result.
PresignOk(u) ==
  /\ upload.call[u].pc = "presign"
  /\ upload' = withRetry(upload, u, Returned(UploadSuccess))
  /\ UNCHANGED <<store, idbQueue, db, isInitialized, openCount, calls, now, ticks, hook>>

\* getSignedUrl rejects: generatePresignedUrl returns null, uploadImage throws
\* 'Failed to generate presigned URL' and catches it.
PresignFail(u) ==
  /\ upload.call[u].pc = "presign"
  /\ upload' = withRetry(upload, u, uploadImageCatch("presign"))
  /\ UNCHANGED <<store, idbQueue, db, isInitialized, openCount, calls, now, ticks, hook>>

\* The server process of the upload route, with or without its environment
\* variables; the image cache is not used there.
InitUpload ==
  /\ store = EmptyStore
  /\ idbQueue = <<>>
  /\ db = NULL
  /\ isInitialized = FALSE
  /\ openCount = 0
  /\ now = CACHE_EXPIRY
  /\ ticks = 0
  /\ calls = [c \in CallIds |-> IdleCall]
  /\ hook = HookMounted
  /\ \E env \in BOOLEAN : upload = [NoUpload EXCEPT !.env = env]

NextUpload ==
  \/ \E u \in UploadIds : uploadImageWithRetry(u)
  \/ \E u \in UploadIds : SendOk(u)
  \/ \E u \in UploadIds : SendFail(u)
  \/ \E u \in UploadIds : PresignOk(u)
  \/ \E u \in UploadIds : PresignFail(u)

SpecUpload == InitUpload /\ [][NextUpload]_vars

(***************************************************************************)
(* The claims.                                                             *)
(***************************************************************************)

Lookups == {"cacheImage", "urlToBase64"}

\* The get of call c has called back with success (now >= CACHE_EXPIRY > 0).
ReadDone(c) == calls[c].seenAt > 0

\* Call j started after call i had settled, and no other call on key k came
\* between the start of i and the start of j: every other call is not
\* started, settled before i started, started after j, on another key, or a
\* sweep.
Sequential(i, j, k) ==
  /\ i \in calls[j].doneBefore
  /\ \A m \in CallIds \ {i, j} :
       \/ calls[m].pc = "idle"
       \/ m \in calls[i].doneBefore
       \/ m > j
       \/ calls[m].url # k
       \/ calls[m].op = "clearExpiredCache"

\* cacheImage(k) call i found no record, fetched and stored.
FetchedAndStored(i) ==
  /\ calls[i].op = "cacheImage"
  /\ calls[i].pc = "done"
  /\ ReadDone(i)
  /\ calls[i].seen = NoEntry
  /\ calls[i].faults = {}

\* cacheImage(k) call j, issued after i, has completed a lookup that read
\* the store while the record of i was younger than CACHE_EXPIRY.
LaterWithinTTL(i, j) ==
  /\ calls[j].op = "cacheImage"
  /\ calls[j].url = calls[i].url
  /\ Sequential(i, j, calls[i].url)
  /\ calls[j].pc = "done"
  /\ "read" \notin calls[j].faults
  /\ calls[j].seenAt - calls[i].stamp < CACHE_EXPIRY

\* C1: a sequential cacheImage(k) that finds no record for k and whose fetch
\* and put succeed makes exactly one network fetch (and one put) and returns an
\* object URL of the fetched blob; a later cacheImage(k) whose lookup reads
\* the store while now - storedAt(k) < CACHE_EXPIRY makes no fetch and
\* returns an object URL of the blob that the first call stored.
C1_FetchOnceThenHit ==
  \A i \in CallIds :
    FetchedAndStored(i) =>
      /\ calls[i].nFetch = 1
      /\ calls[i].nPut = 1
      /\ calls[i].result = ObjectURL(RemoteBlob(calls[i].url))
      /\ \A j \in CallIds :
           LaterWithinTTL(i, j) =>
             /\ calls[j].nFetch = 0
             /\ calls[j].nPut = 0
             /\ calls[j].seen = CachedImage(calls[i].url, calls[i].blob,
                                            calls[i].stamp, "messageId")
             /\ calls[j].result = ObjectURL(calls[i].blob)

C1_Witness ==
  \E i, j \in CallIds :
    /\ FetchedAndStored(i)
    /\ LaterWithinTTL(i, j)
    /\ calls[j].result = ObjectURL(RemoteBlob(KeyA))
    /\ calls[j].nFetch = 0

\* The lookup of call c read a record that had expired: storedAt + TTL <= now.
ReadExpired(c) ==
  /\ calls[c].op \in Lookups
  /\ ReadDone(c)
  /\ calls[c].seen # NoEntry
  /\ calls[c].seen.timestamp + CACHE_EXPIRY <= calls[c].seenAt

\* No other call on the key of c has been running since c started.
Undisturbed(c) ==
  \A m \in CallIds \ {c} :
    \/ calls[m].pc = "idle"
    \/ m \in calls[c].doneBefore
    \/ calls[m].url # calls[c].url
    \/ calls[m].op = "clearExpiredCache"

\* C2: a cacheImage(k) or urlToBase64(k) whose lookup reads a record of k
\* with storedAt + CACHE_EXPIRY <= now makes a network fetch; when the fetch
\* and the put succeed, the record of k is the one the call built: its
\* timestamp is the Date.now() of the call (not before the read, later than
\* the old storedAt) and its blob is the fetched one.
C2_ExpiredRefetched ==
  \A c \in CallIds :
    ReadExpired(c) =>
      /\ calls[c].nFetch = 1
      /\ calls[c].nPut = 1 =>
           /\ calls[c].stamp >= calls[c].seenAt
           /\ calls[c].stamp > calls[c].seen.timestamp
           /\ (Undisturbed(c) /\ now - calls[c].stamp < CACHE_EXPIRY) =>
                /\ store[calls[c].url] # NoEntry
                /\ store[calls[c].url].timestamp = calls[c].stamp
                /\ store[calls[c].url].blob = RemoteBlob(calls[c].url)

C2_Witness ==
  \E c, d \in CallIds :
    /\ calls[c].op = "cacheImage" /\ calls[d].op = "urlToBase64"
    /\ ReadExpired(c) /\ ReadExpired(d)
    /\ calls[c].seen.timestamp + CACHE_EXPIRY = calls[c].seenAt
    /\ calls[d].nPut = 1 /\ calls[d].pc = "done" /\ Undisturbed(d)
    /\ store[calls[d].url].timestamp = calls[d].stamp
    /\ calls[d].stamp > calls[d].seen.timestamp

\* C3: a lookup that reads a record serves it exactly when
\* now - storedAt < CACHE_EXPIRY at the read: then the call makes no fetch and
\* its content is the record's blob; a record with now - storedAt >=
\* CACHE_EXPIRY (the boundary now - storedAt = CACHE_EXPIRY included) is
\* never served, the call fetches.
C3_NoExpiredServed ==
  \A c \in CallIds :
    (calls[c].op \in Lookups /\ ReadDone(c) /\ calls[c].seen # NoEntry) =>
      IF calls[c].seenAt - calls[c].seen.timestamp < CACHE_EXPIRY
        THEN /\ calls[c].nFetch = 0
             /\ calls[c].op = "cacheImage" => calls[c].result = ObjectURL(calls[c].seen.blob)
             /\ calls[c].op = "urlToBase64" => calls[c].blob = calls[c].seen.blob
        ELSE /\ calls[c].nFetch = 1
             /\ calls[c].blob \in {NoBlob, RemoteBlob(calls[c].url)}
             /\ calls[c].result.kind \in {"blob:", "data:"} =>
                  calls[c].result \in {ObjectURL(RemoteBlob(calls[c].url)),
                                       DataURI(RemoteBlob(calls[c].url))}

\* One lookup served a record of age CACHE_EXPIRY - 1, another refused one of
\* age CACHE_EXPIRY.
C3_Witness ==
  \E c, d \in CallIds :
    /\ calls[c].op \in Lookups /\ ReadDone(c) /\ calls[c].seen # NoEntry
    /\ calls[c].seenAt - calls[c].seen.timestamp = CACHE_EXPIRY - 1
    /\ calls[c].nFetch = 0
    /\ calls[c].op = "cacheImage" /\ calls[c].pc = "done"
    /\ calls[c].result = ObjectURL(OldBlob(calls[c].url))
    /\ calls[d].op \in Lookups /\ ReadDone(d) /\ calls[d].seen # NoEntry
    /\ calls[d].seenAt - calls[d].seen.timestamp = CACHE_EXPIRY
    /\ calls[d].nFetch = 1

\* The failures that end a cacheImage call; a failed read is recovered from:
\* the lookup returns null and the call goes on to fetch.
Fatal == {"open", "fetch", "write"}

\* C4: cacheImage never rejects.  Whatever fails (the open, the read, the
\* fetch, the put), a settled cacheImage call has resolved, to the original
\* locator when the open, the fetch or the put failed and to an object URL of
\* the stored or fetched blob otherwise.
C4_CacheImageNeverRejects ==
  \A c \in CallIds :
    (calls[c].op = "cacheImage" /\ calls[c].pc = "done") =>
      /\ calls[c].result.kind # "rejected"
      /\ IF calls[c].faults \cap Fatal # {}
           THEN calls[c].result = Original(calls[c].url)
           ELSE \/ /\ calls[c].nFetch = 0
                   /\ calls[c].seen # NoEntry
                   /\ calls[c].result = ObjectURL(calls[c].seen.blob)
                \/ /\ calls[c].nFetch = 1
                   /\ calls[c].result = ObjectURL(RemoteBlob(calls[c].url))

\* A read failed and then the put failed: the call settled with the locator;
\* another call failed at the open.
C4_Witness ==
  \E c, d \in CallIds :
    /\ calls[c].op = "cacheImage" /\ calls[c].pc = "done"
    /\ calls[c].faults = {"read", "write"}
    /\ calls[c].result = Original(calls[c].url)
    /\ calls[d].op = "cacheImage" /\ calls[d].pc = "done"
    /\ calls[d].faults = {"open"}
    /\ calls[d].result = Original(calls[d].url)

\* Call c has no put waiting in the queue.
NoPutPending(c) ==
  \A n \in 1..Len(idbQueue) : ~(idbQueue[n].kind = "put" /\ idbQueue[n].call = c)

\* C5: when the fetch of urlToBase64(k) fails, the call rejects with the
\* fetch error and has written nothing: it built no record, made no put and
\* has none pending.
C5_FetchFailureRejects ==
  \A c \in CallIds :
    (calls[c].op = "urlToBase64" /\ "fetch" \in calls[c].faults) =>
      /\ calls[c].pc = "done"
      /\ calls[c].result = Rejected("fetch")
      /\ calls[c].nFetch = 1
      /\ calls[c].nPut = 0
      /\ calls[c].stamp = 0
      /\ calls[c].blob = NoBlob
      /\ NoPutPending(c)

\* The fetch failed after an expired record was read; the store holds no
\* record for the key.
C5_Witness ==
  \E c \in CallIds :
    /\ calls[c].op = "urlToBase64" /\ "fetch" \in calls[c].faults
    /\ calls[c].result = Rejected("fetch")
    /\ ReadExpired(c)
    /\ idbQueue = <<>>
    /\ store[calls[c].url] = NoEntry

\* Call c has no request waiting in the queue.
NoRequestPending(c) ==
  \A n \in 1..Len(idbQueue) : idbQueue[n].call # c

\* C6: cacheImage called with a locator that is already local (prefix
\* 'blob:') or embedded (prefix 'data:') returns it unchanged and opens
\* nothing, reads and writes nothing in the store and fetches nothing.
C6_LocalPassthrough ==
  \A c \in CallIds :
    (/\ calls[c].op = "cacheImage"
     /\ startsWith(calls[c].url, "blob:") \/ startsWith(calls[c].url, "data:")) =>
      /\ calls[c].nOpen = 0
      /\ calls[c].nFetch = 0
      /\ calls[c].nPut = 0
      /\ ~ReadDone(c)
      /\ NoRequestPending(c)
      /\ calls[c].pc = "done" => calls[c].result = Original(calls[c].url)

\* removeCachedImage(k) call r has settled after issuing its delete, and
\* cacheImage(k) call j started afterwards, with no other call that could
\* store a record of k between them.
AfterRemoval(r, j) ==
  /\ calls[r].op = "removeCachedImage"
  /\ calls[r].pc = "done"
  /\ calls[r].faults = {}
  /\ calls[j].op = "cacheImage"
  /\ calls[j].url = calls[r].url
  /\ r \in calls[j].doneBefore
  /\ \A m \in CallIds \ {r, j} :
       \/ calls[m].pc = "idle"
       \/ m \in calls[r].doneBefore
       \/ m > j
       \/ calls[m].url # calls[r].url
       \/ calls[m].op \in {"clearExpiredCache", "removeCachedImage"}

\* C7: a cacheImage(k) that follows a completed removeCachedImage(k) never
\* hits the removed record, fresh or not: its lookup finds no record and the
\* call makes a network fetch.
C7_RemoveThenFetch ==
  \A r, j \in CallIds :
    AfterRemoval(r, j) =>
      /\ calls[j].seen = NoEntry
      /\ calls[j].pc # "get" => calls[j].nFetch = 1
      /\ calls[j].result.kind = "blob:" =>
           calls[j].result = ObjectURL(RemoteBlob(calls[j].url))

\* The removed record was fresh: the session began with KeyA stored at 1 and
\* KeyB at 0, no time has passed and nothing but the removal has touched the
\* store.
C7_Witness ==
  \E r, j \in CallIds :
    /\ AfterRemoval(r, j)
    /\ calls[j].url = KeyA
    /\ ticks = 0
    /\ store[KeyB] = OldImage(KeyB, 0)
    /\ ReadDone(j)
    /\ calls[j].pc = "done"
    /\ calls[j].nFetch = 1
    /\ calls[j].result = ObjectURL(RemoteBlob(KeyA))

\* C8: a sweep that computes its cutoff at time t removes every record with
\* t - storedAt >= CACHE_EXPIRY (t - storedAt = CACHE_EXPIRY included) and
\* leaves every record with t - storedAt < CACHE_EXPIRY as it was: key, blob
\* and timestamp.
C8_SweepExact ==
  \A c \in CallIds :
    calls[c].swept # <<>> =>
      LET s == calls[c].swept[1]
          t == calls[c].stamp
      IN  \A k \in Locators :
            IF s.before[k] # NoEntry /\ t - s.before[k].timestamp >= CACHE_EXPIRY
              THEN s.after[k] = NoEntry
              ELSE s.after[k] = s.before[k]

\* A sweep removed a record of age CACHE_EXPIRY and kept one of age
\* CACHE_EXPIRY - 1; the store is what the sweep left.
C8_Witness ==
  \E c \in CallIds :
    /\ calls[c].swept # <<>>
    /\ LET s == calls[c].swept[1]
           t == calls[c].stamp
       IN  \E k1, k2 \in StoredKeys :
             /\ s.before[k1] # NoEntry
             /\ t - s.before[k1].timestamp = CACHE_EXPIRY
             /\ s.after[k1] = NoEntry
             /\ s.before[k2] # NoEntry
             /\ t - s.before[k2].timestamp = CACHE_EXPIRY - 1
             /\ s.after[k2] = s.before[k2]
             /\ store = s.after

\* C9: when the put fails after a successful fetch, the call still delivers
\* the fetched content: cacheImage returns an object URL of the fetched blob
\* and urlToBase64 the data URI of it, and nothing is stored.
C9_WriteFailureStillDelivers ==
  \A c \in CallIds :
    (/\ calls[c].op \in Lookups
     /\ calls[c].pc = "done"
     /\ "write" \in calls[c].faults) =>
      /\ calls[c].nPut = 0
      /\ calls[c].op = "cacheImage" => calls[c].result = ObjectURL(calls[c].blob)
      /\ calls[c].op = "urlToBase64" => calls[c].result = DataURI(calls[c].blob)

\* C10: while no indexedDB.open has completed, the calls under way (the
\* startup sweep included) have issued one open request between them.
C10_SingleOpen ==
  (/\ ~isInitialized
   /\ \A c \in CallIds : "open" \notin calls[c].faults) => openCount <= 1

\* C11: where there is no IndexedDB at all (server-side execution), a
\* settled cacheImage(k) has returned k unchanged, and a settled
\* urlToBase64(k) has made one direct network fetch of k, has stored nothing
\* and, unless that fetch failed, has returned the data URI of the fetched
\* content.
C11_NoBackendDirectFetch ==
  \A c \in CallIds :
    calls[c].pc = "done" =>
      /\ calls[c].op = "cacheImage" =>
           /\ calls[c].result = Original(calls[c].url)
           /\ calls[c].nPut = 0
      /\ calls[c].op = "urlToBase64" =>
           /\ calls[c].nFetch = 1
           /\ calls[c].nPut = 0
           /\ \/ calls[c].result = DataURI(RemoteBlob(calls[c].url))
              \/ calls[c].result = Rejected("fetch")

\* C12: a cacheImage(k) whose indexedDB.open fails settles at once, resolved
\* to k itself: it is not rejected, and it has read nothing, fetched nothing
\* and written nothing.
C12_OpenFailureReturnsLocator ==
  \A c \in CallIds :
    (calls[c].op = "cacheImage" /\ "open" \in calls[c].faults) =>
      /\ calls[c].pc = "done"
      /\ calls[c].result = Original(calls[c].url)
      /\ calls[c].nFetch = 0
      /\ calls[c].nPut = 0
      /\ ~ReadDone(c)
      /\ NoRequestPending(c)

\* The open of one cacheImage(KeyA) failed while the store held a valid record
\* of KeyA, and the open of a later call succeeded.
C12_Witness ==
  \E c \in CallIds :
    /\ calls[c].op = "cacheImage" /\ calls[c].url = KeyA
    /\ calls[c].faults = {"open"}
    /\ calls[c].result = Original(KeyA)
    /\ store[KeyA] = OldImage(KeyA, 1)
    /\ now = CACHE_EXPIRY
    /\ isInitialized
    /\ db > c

\* The record that a lookup call builds for its put (lines 64-69, 197-201).
BuiltBy(c) ==
  CachedImage(calls[c].url, calls[c].blob, calls[c].stamp,
              IF calls[c].op = "cacheImage" THEN "messageId" ELSE "undefined")

\* The put of call c succeeds in this step.
PutStep(c) == calls'[c].nPut = calls[c].nPut + 1

\* C13: the store holds at most one record per key, the record under key k
\* being a record of k; a put for a key that has a record replaces it and
\* leaves the other keys alone, so that the record of a key is an earlier
\* session's or the one built by a call whose put succeeded, and is never
\* older than the record of any call whose put has succeeded (last write
\* wins, storedAt is that of the last write).
C13_OneEntryPerKey ==
  /\ [](/\ \A k \in Locators :
             store[k] # NoEntry =>
               /\ store[k].url = k
               /\ \/ \E t \in {0, 1} : store[k] = OldImage(k, t)
                  \/ \E c \in CallIds : calls[c].nPut = 1 /\ store[k] = BuiltBy(c)
        /\ \A c \in CallIds :
             (calls[c].nPut = 1 /\ store[calls[c].url] # NoEntry) =>
               /\ store[calls[c].url].timestamp >= calls[c].stamp
               /\ store[calls[c].url].blob = RemoteBlob(calls[c].url))
  /\ [][\A c \in CallIds :
          PutStep(c) =>
            /\ store'[calls[c].url] = BuiltBy(c)
            /\ \A k \in Locators \ {calls[c].url} : store'[k] = store[k]]_vars

\* Two calls wrote records of KeyA one millisecond apart over the record of an
\* earlier session; the store holds the later one.
C13_Witness ==
  \E c, d \in CallIds :
    /\ calls[c].nPut = 1 /\ calls[d].nPut = 1
    /\ calls[c].url = KeyA /\ calls[d].url = KeyA
    /\ calls[c].seen # NoEntry /\ calls[d].seen # NoEntry
    /\ calls[d].stamp = calls[c].stamp + 1
    /\ store[KeyA] = BuiltBy(d)
    /\ store[KeyA] # BuiltBy(c)

\* cacheImage(k) calls c and d ran concurrently (neither had settled when the
\* other started) and both looked k up while the store had no record of it.
ConcurrentMiss(c, d) ==
  /\ c # d
  /\ calls[c].op = "cacheImage" /\ calls[d].op = "cacheImage"
  /\ calls[c].url = calls[d].url
  /\ c \notin calls[d].doneBefore /\ d \notin calls[c].doneBefore
  /\ ReadDone(c) /\ ReadDone(d)
  /\ calls[c].seen = NoEntry /\ calls[d].seen = NoEntry

\* Every call that was started has settled and every store request has been
\* executed; no removeCachedImage was among the calls.
AllCompleted ==
  /\ idbQueue = <<>>
  /\ \A m \in CallIds : calls[m].pc \in {"idle", "done"}
  /\ \A m \in CallIds : calls[m].op # "removeCachedImage"

\* C14: concurrent cacheImage(k) calls that find no record of k each make a
\* network fetch (at least one fetch, nothing is deduplicated); when their
\* fetches and puts succeed, each caller gets an object URL of the fetched
\* blob, and once all calls have completed the store holds one record of k,
\* the one built by one of them.
C14_ConcurrentMiss ==
  \A c, d \in CallIds :
    ConcurrentMiss(c, d) =>
      /\ calls[c].nFetch = 1 /\ calls[d].nFetch = 1
      /\ (/\ calls[c].pc = "done" /\ calls[d].pc = "done"
          /\ calls[c].faults = {} /\ calls[d].faults = {}) =>
           /\ calls[c].result = ObjectURL(RemoteBlob(calls[c].url))
           /\ calls[d].result = ObjectURL(RemoteBlob(calls[d].url))
           /\ calls[c].nPut = 1 /\ calls[d].nPut = 1
           /\ AllCompleted => store[calls[c].url] \in {BuiltBy(c), BuiltBy(d)}

\* Both callers fetched at different times and got their object URLs; the
\* store holds the record of the second.
C14_Witness ==
  \E c, d \in CallIds :
    /\ ConcurrentMiss(c, d)
    /\ calls[c].pc = "done" /\ calls[d].pc = "done"
    /\ calls[c].faults = {} /\ calls[d].faults = {}
    /\ calls[c].nFetch + calls[d].nFetch = 2
    /\ calls[d].stamp > calls[c].stamp
    /\ AllCompleted
    /\ store[KeyA] = BuiltBy(d)

\* Lookup call i has stored the record it built, and call j of the other
\* lookup method, started after i had settled with no other call on the key
\* in between, has read the store while that record was younger than
\* CACHE_EXPIRY.
OtherMethodWithinTTL(i, j) ==
  /\ calls[i].op \in Lookups /\ calls[j].op \in Lookups
  /\ calls[i].op # calls[j].op
  /\ calls[i].nPut = 1
  /\ calls[j].url = calls[i].url
  /\ Sequential(i, j, calls[i].url)
  /\ ReadDone(j)
  /\ calls[j].seenAt - calls[i].stamp < CACHE_EXPIRY

\* C15: cacheImage and urlToBase64 resolve against the same store with the
\* same rule: a record stored by one of them is a hit for the other while
\* younger than CACHE_EXPIRY: the other makes no fetch and no put and uses
\* the stored blob, as an object URL or as a data URI.
C15_SameStoreSameRule ==
  \A i, j \in CallIds :
    OtherMethodWithinTTL(i, j) =>
      /\ calls[j].nFetch = 0
      /\ calls[j].nPut = 0
      /\ calls[j].seen = BuiltBy(i)
      /\ calls[j].op = "cacheImage" =>
           /\ calls[j].pc = "done"
           /\ calls[j].result = ObjectURL(calls[i].blob)
      /\ calls[j].op = "urlToBase64" =>
           /\ calls[j].blob = calls[i].blob
           /\ calls[j].result.kind = "data:" => calls[j].result = DataURI(calls[i].blob)

\* urlToBase64 was served the record that cacheImage stored, one millisecond
\* later.
C15_Witness ==
  \E i, j \in CallIds :
    /\ OtherMethodWithinTTL(i, j)
    /\ calls[i].op = "cacheImage"
    /\ calls[j].seenAt = calls[i].stamp + 1
    /\ calls[j].nFetch = 0
    /\ calls[j].result = DataURI(RemoteBlob(KeyA))

\* The content a settled urlToBase64 call obtained: the blob of the record
\* it was served, or the blob it fetched.
ContentOf(c) == IF calls[c].nFetch = 0 THEN calls[c].seen.blob ELSE RemoteBlob(calls[c].url)

\* C16: a urlToBase64(k) that settles without rejecting returns a data URI,
\* never an object URL and never k itself, whose MIME type is the content
\* type of the content obtained for k (served from a valid record or
\* fetched) and whose payload is the base64 encoding of that content.
C16_DataURI ==
  \A c \in CallIds :
    (/\ calls[c].op = "urlToBase64"
     /\ calls[c].pc = "done"
     /\ calls[c].result.kind # "rejected") =>
      /\ calls[c].result.kind = "data:"
      /\ calls[c].result # Original(calls[c].url)
      /\ calls[c].result.val = <<ContentType(ContentOf(c)), base64(ContentOf(c))>>

\* One call was served the PNG an earlier session stored, another fetched
\* the WebP the network serves today.
C16_Witness ==
  \E c, d \in CallIds :
    /\ calls[c].op = "urlToBase64" /\ calls[d].op = "urlToBase64"
    /\ calls[c].pc = "done" /\ calls[d].pc = "done"
    /\ calls[c].nFetch = 0 /\ calls[d].nFetch = 1
    /\ calls[c].result.kind = "data:" /\ calls[d].result.kind = "data:"
    /\ calls[c].result.val[1] = "image/png"
    /\ calls[c].result.val[2] = base64(OldBlob(KeyA))
    /\ calls[d].result.val[1] = "image/webp"
    /\ calls[d].result.val[2] = base64(RemoteBlob(KeyA))

\* Sweep d ran on the store as sweep c left it, and no record of that store
\* expired between the two: every record within the cutoff of d was within
\* the cutoff of c.
InSuccession(c, d) ==
  /\ c # d
  /\ calls[c].swept # <<>> /\ calls[d].swept # <<>>
  /\ calls[d].swept[1].before = calls[c].swept[1].after
  /\ \A k \in Locators :
       LET e == calls[c].swept[1].after[k] IN
         (e # NoEntry /\ upperBound(e.timestamp, calls[d].swept[1].cutoff)) =>
           upperBound(e.timestamp, calls[c].swept[1].cutoff)

\* C17: a second clearExpiredCache run directly after a first leaves the
\* store as the first left it.
C17_SweepIdempotent ==
  \A c, d \in CallIds :
    InSuccession(c, d) => calls[d].swept[1].after = calls[c].swept[1].after

\* The first sweep removed a record and kept one; the second, with the same
\* cutoff, changed nothing.
C17_Witness ==
  \E c, d \in CallIds :
    /\ InSuccession(c, d)
    /\ calls[c].swept[1].cutoff = calls[d].swept[1].cutoff
    /\ calls[c].swept[1].before # calls[c].swept[1].after
    /\ \E k \in StoredKeys : calls[c].swept[1].after[k] # NoEntry
    /\ calls[d].swept[1].after = calls[c].swept[1].after
    /\ store = calls[d].swept[1].after

\* The delete of a removeCachedImage(k) call is executed in this step.
RemovalStep ==
  /\ idbQueue # <<>>
  /\ Head(idbQueue).kind = "delete"
  /\ calls[Head(idbQueue).call].op = "removeCachedImage"
  /\ idbQueue' = Tail(idbQueue)

\* C18: removeCachedImage(k) never rejects: it resolves whether or not k has
\* a record and whether or not the store could be opened (then it issues no
\* request); its delete removes the record of k, if any, and leaves the
\* record of every other key as it was.
C18_RemoveOnlyTheKey ==
  /\ [](\A r \in CallIds :
          (calls[r].op = "removeCachedImage" /\ calls[r].pc = "done") =>
            /\ calls[r].result = Void
            /\ calls[r].faults # {} => NoRequestPending(r))
  /\ [][RemovalStep =>
          /\ store'[Head(idbQueue).url] = NoEntry
          /\ \A k \in Locators \ {Head(idbQueue).url} : store'[k] = store[k]]_vars

\* One removeCachedImage(KeyA) resolved although its open failed; another
\* removed the valid record of KeyA, and the record of KeyB is still there.
C18_Witness ==
  \E r, u \in CallIds :
    /\ calls[r].op = "removeCachedImage" /\ calls[u].op = "removeCachedImage"
    /\ calls[u].faults = {"open"} /\ calls[u].result = Void
    /\ calls[r].faults = {} /\ calls[r].result = Void
    /\ NoRequestPending(r)
    /\ ticks = 0
    /\ calls[1].pc = "open"
    /\ store[KeyA] = NoEntry
    /\ store[KeyB] = OldImage(KeyB, 0)

\* The number of records in a store.
Size(st) == Cardinality({k \in Locators : st[k] # NoEntry})

\* The count of a getCacheSize call is executed in this step.
CountStep ==
  /\ idbQueue # <<>>
  /\ Head(idbQueue).kind = "count"
  /\ idbQueue' = Tail(idbQueue)

\* C19: getCacheSize never rejects: it resolves to a number, which is 0 when
\* the open, the transaction or the count request failed; when the count
\* succeeds the number is the number of records in the store at that moment;
\* and no step of a getCacheSize call changes the store.
C19_CountExact ==
  /\ [](\A c \in CallIds :
          (calls[c].op = "getCacheSize" /\ calls[c].pc = "done") =>
            /\ calls[c].result.kind = "number"
            /\ calls[c].result.val \in 0..Cardinality(Locators)
            /\ calls[c].faults # {} => calls[c].result = Number(0))
  /\ [][/\ CountStep =>
            LET c == Head(idbQueue).call IN
              /\ calls'[c].pc = "done"
              /\ calls'[c].faults = {} => calls'[c].result = Number(Size(store))
        /\ \A c \in CallIds :
             (calls'[c].op = "getCacheSize" /\ calls'[c] # calls[c]) => store' = store]_vars

\* One getCacheSize counted the two records of an earlier session, another
\* counted one after the sweep had removed the expired one.
C19_Witness ==
  \E c, d \in CallIds :
    /\ calls[c].op = "getCacheSize" /\ calls[d].op = "getCacheSize"
    /\ calls[c].faults = {} /\ calls[d].faults = {}
    /\ calls[c].result = Number(2)
    /\ calls[d].result = Number(1)
    /\ calls[1].swept # <<>>
    /\ Size(calls[1].swept[1].before) = 2
    /\ Size(store) = 1

\* C20: a record appears only by the put of a call that fetched, and is then
\* valid; a record disappears only when it has expired (by the delete that
\* follows a read of it, or by the sweep) or by the delete of an explicit
\* removeCachedImage call: a valid record is never deleted by the delete that
\* a lookup issued after reading an expired record.
C20_ListedTransitions ==
  [][\A k \in Locators :
       /\ (store[k] = NoEntry /\ store'[k] # NoEntry) =>
            \E c \in CallIds :
              /\ PutStep(c)
              /\ store'[k] = BuiltBy(c)
              /\ IsFresh(store'[k], now)
       /\ (store[k] # NoEntry /\ store'[k] = NoEntry) =>
            \/ ~IsFresh(store[k], now)
            \/ RemovalStep]_vars

\* The cursor of a clearExpiredCache call runs in this step.
CursorStep ==
  /\ idbQueue # <<>>
  /\ Head(idbQueue).kind = "cursor"
  /\ idbQueue' = Tail(idbQueue)

\* C21: the sweep is safe beside lookups: whenever its cursor runs, every
\* record that is valid at that moment (the records that lookups have just
\* stored among them) is left as it is; and a lookup that reads an expired
\* record, before or after the sweep gets to it, never returns its content.
C21_SweepBesideLookups ==
  /\ [](\A c \in CallIds :
          (ReadExpired(c) /\ calls[c].pc = "done") =>
            /\ calls[c].result # ObjectURL(calls[c].seen.blob)
            /\ calls[c].result # DataURI(calls[c].seen.blob))
  /\ [][CursorStep =>
          \A k \in Locators :
            (store[k] # NoEntry /\ IsFresh(store[k], now)) => store'[k] = store[k]]_vars

\* The sweep ran after a lookup had stored a record of KeyA: it removed the
\* expired record of KeyB and kept the new record.
C21_Witness ==
  \E c \in CallIds :
    /\ calls[c].op \in Lookups /\ calls[c].nPut = 1 /\ calls[c].url = KeyA
    /\ ReadExpired(c)
    /\ calls[1].swept # <<>>
    /\ calls[1].swept[1].before[KeyA] = BuiltBy(c)
    /\ calls[1].swept[1].after[KeyA] = BuiltBy(c)
    /\ calls[1].swept[1].before[KeyB] # NoEntry
    /\ calls[1].swept[1].after[KeyB] = NoEntry
    /\ store[KeyA] = BuiltBy(c)

\* C22: the connection is memoized: once an open has succeeded, isInitialized
\* stays true, db is the connection that a successful open stored, no call
\* issues another indexedDB.open, and every store request is issued on an
\* open connection.
C22_HandleMemoized ==
  /\ [](isInitialized =>
          /\ db \in CallIds
          /\ calls[db].nOpen = 1
          /\ "open" \notin calls[db].faults)
  /\ [][/\ isInitialized => (isInitialized' /\ db' # NULL /\ openCount' = openCount)
        /\ Len(idbQueue') > Len(idbQueue) => (isInitialized' /\ db' # NULL)
        /\ \A c \in CallIds :
             (isInitialized /\ calls[c].pc = "idle") => calls'[c].nOpen = 0]_vars

\* The open of the startup sweep is the only one: two later cacheImage calls
\* stored and hit on its connection.
C22_Witness ==
  /\ isInitialized /\ db = 1 /\ openCount = 1
  /\ \E c, d \in CallIds :
       /\ calls[c].op = "cacheImage" /\ calls[d].op = "cacheImage"
       /\ calls[c].nOpen = 0 /\ calls[d].nOpen = 0
       /\ calls[c].nPut = 1
       /\ calls[d].pc = "done" /\ calls[d].seen = BuiltBy(c)

C24_ReadFailureIsMiss ==
  \A c \in CallIds :
    (calls[c].op \in Lookups /\ "read" \in calls[c].faults) =>
      /\ ~ReadDone(c)
      /\ calls[c].nFetch = 1
      /\ calls[c].pc # "get"
      /\ (calls[c].pc = "done" /\ calls[c].faults = {"read"}) =>
           /\ calls[c].nPut = 1
           /\ calls[c].op = "cacheImage" =>
                calls[c].result = ObjectURL(RemoteBlob(calls[c].url))
           /\ calls[c].op = "urlToBase64" =>
                calls[c].result = DataURI(RemoteBlob(calls[c].url))

\* Both methods failed to read the store and delivered the fetched content.
C24_Witness ==
  \E c, d \in CallIds :
    /\ calls[c].op = "cacheImage" /\ calls[d].op = "urlToBase64"
    /\ calls[c].faults = {"read"} /\ calls[d].faults = {"read"}
    /\ calls[c].result = ObjectURL(RemoteBlob(KeyA))
    /\ calls[d].result = DataURI(RemoteBlob(KeyA))

\* C25: uploadImageWithRetry reports a failed upload (the S3 send or the
\* presigned URL failed) only after the third failed attempt: a call that
\* has settled with such a failure has made three attempts.
C25_UploadRetried ==
  \A u \in UploadIds :
    (/\ upload.call[u].pc = "done"
     /\ upload.call[u].result \in {UploadFailure("send"), UploadFailure("presign")}) =>
      /\ upload.call[u].attempt = maxRetries
      /\ upload.call[u].sends = maxRetries

\* The lookup of call c read a record younger than CACHE_EXPIRY.
ReadFresh(c) ==
  /\ calls[c].op \in Lookups
  /\ ReadDone(c)
  /\ calls[c].seen # NoEntry
  /\ calls[c].seenAt - calls[c].seen.timestamp < CACHE_EXPIRY

\* The step in which the get of a lookup calls back with a fresh record.
HitStep ==
  /\ idbQueue # <<>>
  /\ Head(idbQueue).kind = "get"
  /\ store[Head(idbQueue).url] # NoEntry
  /\ IsFresh(store[Head(idbQueue).url], now)
  /\ calls'[Head(idbQueue).call].seenAt # calls[Head(idbQueue).call].seenAt

\* C26: a cacheImage(k) or urlToBase64(k) served from a fresh record leaves
\* the store unchanged: the step that serves it changes no record and issues
\* no request, and the call makes no fetch, builds no record and never has a
\* put or a delete in the queue; the record keeps its timestamp, so a later
\* lookup that reads it CACHE_EXPIRY or more after that timestamp finds it
\* expired.
C26_HitLeavesStore ==
  /\ [](\A c \in CallIds :
          ReadFresh(c) =>
            /\ calls[c].nFetch = 0
            /\ calls[c].nPut = 0
            /\ calls[c].stamp = 0
            /\ NoRequestPending(c))
  /\ [][HitStep => /\ store' = store
                   /\ idbQueue' = Tail(idbQueue)]_vars

\* Call c was served a record one millisecond before its expiry; call d,
\* started after c had settled, read the very same record one millisecond
\* later and fetched.
C26_Witness ==
  \E c, d \in CallIds :
    /\ ReadFresh(c) /\ calls[c].pc = "done"
    /\ c \in calls[d].doneBefore
    /\ ReadExpired(d)
    /\ calls[d].seen = calls[c].seen
    /\ calls[d].seenAt = calls[c].seenAt + 1
    /\ calls[d].nFetch = 1

\* The step in which the open request of call c calls back with an error.
OpenFailStep(c) ==
  /\ "open" \notin calls[c].faults
  /\ "open" \in calls'[c].faults

\* The step in which call c starts.
StartStep(c) ==
  /\ calls[c].pc = "idle"
  /\ calls'[c].pc # "idle"

\* The open of some call that had settled before c started failed.
AfterFailedOpen(c) ==
  \E f \in calls[c].doneBefore : "open" \in calls[f].faults

\* C29: a failed open is not memoized: the step in which an open fails
\* leaves isInitialized and db as they were (false and null unless another
\* open has succeeded), and db is null whenever isInitialized is false; a
\* call that starts while isInitialized is false issues a new open; and a
\* cacheImage started after a failed open, whose own requests all succeed,
\* returns an object URL of the image (fetched and stored, or served from the
\* record).
C29_FailedOpenNotMemoized ==
  /\ [](/\ ~isInitialized => db = NULL
        /\ \A c \in CallIds :
             (/\ AfterFailedOpen(c)
              /\ calls[c].op = "cacheImage"
              /\ calls[c].pc = "done"
              /\ calls[c].faults = {}) =>
               /\ isInitialized
               /\ calls[c].result \in {ObjectURL(RemoteBlob(calls[c].url)),
                                       ObjectURL(OldBlob(calls[c].url))}
               /\ calls[c].nFetch = 1 => calls[c].nPut = 1)
  /\ [][\A c \in CallIds :
          /\ OpenFailStep(c) => /\ isInitialized' = isInitialized
                                /\ db' = db
          /\ (StartStep(c) /\ ~isInitialized) =>
               /\ calls'[c].nOpen = 1
               /\ openCount' = openCount + 1]_vars

\* The open of the startup sweep failed; the next cacheImage opened the
\* store itself, fetched and stored; the cacheImage after it was served the
\* stored record.
C29_Witness ==
  \E f, c, d \in CallIds :
    /\ calls[f].faults = {"open"}
    /\ f \in calls[c].doneBefore
    /\ FetchedAndStored(c) /\ calls[c].nOpen = 1 /\ calls[c].nPut = 1
    /\ db = c
    /\ c \in calls[d].doneBefore
    /\ calls[d].op = "cacheImage" /\ calls[d].url = calls[c].url
    /\ calls[d].pc = "done" /\ calls[d].nOpen = 0 /\ calls[d].nFetch = 0
    /\ calls[d].result = ObjectURL(RemoteBlob(calls[c].url))

\* What useCachedImage shows for a url argument once its work is over: null
\* for null, the locator itself for an object URL or data URI, and for a
\* remote locator an object URL of its image or, on failure, the locator.
DerivedFrom(url) ==
  IF url = NoUrl THEN {NoCachedUrl}
  ELSE IF url \in LocalLocators THEN {Original(url)}
  ELSE {Original(url), ObjectURL(RemoteBlob(url)), ObjectURL(OldBlob(url))}

\* Every cacheImage call of the hook has settled and its callbacks have run.
HookQuiet ==
  /\ hook.then = {}
  /\ \A c \in CallIds : calls[c].op = "cacheImage" => calls[c].pc = "done"

\* C27: useCachedImage shows only the latest locator's result: once every
\* call the hook has made has settled, cachedUrl is the value derived from
\* the current url argument.
C27_LatestLocatorShown ==
  HookQuiet => hook.cachedUrl \in DerivedFrom(hook.url)

\* C28: isLoading is true whenever a cacheImage call the hook made for the
\* current url argument is still in flight.
C28_LoadingWhilePending ==
  \A c \in hook.then :
    (calls[c].url = hook.url /\ calls[c].pc # "done") => hook.isLoading

\* C30: provided every request it issues (open, get, fetch, put, data-URL
\* read) eventually signals success or error, every cacheImage and
\* urlToBase64 call eventually settles, and isLoading of useCachedImage
\* eventually returns to false.
C30_EverySettles ==
  /\ \A c \in CallIds :
       (calls[c].op \in Lookups) ~> (calls[c].pc = "done")
  /\ hook.isLoading ~> ~hook.isLoading

\* A urlToBase64 call went through open, get, fetch, put and the data-URL
\* read and settled; the cacheImage call of the hook settled after a failed
\* read and a fetch, and the hook shows its result with isLoading false.
C30_Witness ==
  \E c, d \in CallIds :
    /\ calls[c].op = "urlToBase64" /\ calls[c].pc = "done"
    /\ calls[c].nOpen = 1 /\ calls[c].nFetch = 1 /\ calls[c].nPut = 1
    /\ ReadDone(c) /\ calls[c].faults = {}
    /\ calls[c].result = DataURI(RemoteBlob(KeyA))
    /\ calls[d].op = "cacheImage" /\ calls[d].pc = "done"
    /\ "read" \in calls[d].faults /\ calls[d].nFetch = 1
    /\ hook.then = {} /\ ~hook.isLoading
    /\ hook.url = KeyA
    /\ hook.cachedUrl = calls[d].result

====
